---- MODULE Spec2Model ----
(***************************************************************************)
(* A model of the channels crate: the counting MPSC channel (src/mpsc.rs), *)
(* the futex wait / wake pair it blocks on (src/utils/wait.rs) and the two *)
(* oneshot channels (src/oneshot/oneshot_arc.rs, src/oneshot/oneshot_ptr.rs)*)
(* Every atomic access of the code is one step of the model, so that the   *)
(* interleavings of the producer threads and the consumer are explored.    *)
(***************************************************************************)
EXTENDS Integers, Sequences, FiniteSets, TLC

\* ------------------------------------------------------------------ bounds
\* Sender handles that may ever exist (the original one and its clones).
MaxSenders == 2
\* send() calls over the whole run.
MaxSends == 3
\* The values a oneshot send() may be given are 1..MaxVal.
MaxVal == 2

Handles == 1..MaxSenders

VARIABLES
    \* ---- mpsc.rs: Channel<T> and its handles
    queue,      \* Channel.queue: the values pushed and not yet popped, head first
    messages,   \* Channel.messages: the AtomicUsize counter
    strong,     \* Arc<Channel<T>>'s strong count (every Sender and the Receiver)
    hst,        \* per Sender handle: "none" (not created), "idle", "pushed"
                \* (send() after queue.push), "added" (after fetch_add), "dropped"
    npushed,    \* number of queue.push calls so far; the k-th push carries value k
    \* ---- mpsc.rs: the single consumer thread
    cpc,        \* where the consumer is
    cop,        \* the Receiver operation it is in, or was last in
    m,          \* recv()'s local `messages`
    cres,       \* the result of the last completed operation
    received,   \* the values recv() / try_recv() / next() have handed out, in order
    seenM,      \* the counter when the current operation was called
    quiet,      \* no producer step since the current operation was called, and
                \* no send() was in progress when it was called
    \* ---- oneshot_arc.rs / oneshot_ptr.rs: one OneShot<T> and its two endpoints
    variant,    \* "arc" (oneshot_arc.rs) or "ptr" (oneshot_ptr.rs)
    omsg,       \* OneShot.message: 0 while uninitialized, else the value written
    oready,     \* OneShot.ready
    oalloc,     \* the slot's allocation: "live", or "freed" once deallocated
    nfree,      \* how many times the slot has been deallocated
    ostrong,    \* arc: the Arc's strong count; ptr: unused
    slotdrop,   \* what Drop for OneShot did: "-" (not run), "value" (ran the
                \* value's destructor) or "empty" (left the storage alone)
    spc,        \* Sender: "idle", "written", "stored", "done" (send() returned),
                \* "dropped" (dropped without sending)
    sarg,       \* the value passed to send(), 0 before the call
    rpc,        \* Receiver: "idle", "swap", "park", "parked", "read", "ret",
                \* "done" (recv() returned and dropped self), "dropped"
    rret,       \* the value recv() returned, 0 before it returns
    token,      \* the receiving thread's park token
    uninitRead, \* recv() has read the storage while it was uninitialized
    uaf         \* the slot has been accessed after it was deallocated

mvars == <<queue, messages, strong, hst, npushed, cpc, cop, m, cres, received,
           seenM, quiet>>
ovars == <<variant, omsg, oready, oalloc, nfree, ostrong, slotdrop, spc, sarg, rpc, rret,
           token, uninitRead, uaf>>
vars == <<mvars, ovars>>

\* ------------------------------------------------------- utils/queue (Queue<T>)
\* Queue::push: insert at the tail.
QueuePush(q, v) == Append(q, v)

\* Queue::try_pop: the head element if there is one.
QueueTryPop(q) ==
    IF q = <<>>
    THEN [some |-> FALSE, val |-> 0, rest |-> q]
    ELSE [some |-> TRUE, val |-> Head(q), rest |-> Tail(q)]

\* ------------------------------------------------------------ results
NoRes == [kind |-> "-", val |-> 0]
Ok(v) == [kind |-> "Ok", val |-> v]
Err == [kind |-> "Err", val |-> 0]
Some(v) == [kind |-> "Some", val |-> v]
None == [kind |-> "None", val |-> 0]
Bool(b) == [kind |-> IF b THEN "true" ELSE "false", val |-> 0]

\* ------------------------------------------------------------ Receiver reads
\* senders_remaining without the Receiver's own reference subtracted.
SendersRemainingWithReceiver == strong

\* Receiver::senders_remaining
SendersRemaining == strong - 1

\* Receiver::messages_remaining
MessagesRemaining == messages

\* ready() that takes an empty channel for a ready one.
ReadyOnEmpty == MessagesRemaining >= 0

\* Receiver::ready
Ready == MessagesRemaining > 0

LiveSenders == {h \in Handles : hst[h] \in {"idle", "pushed", "added"}}
SendInFlight == \E h \in Handles : hst[h] \in {"pushed", "added"}

\* ------------------------------------------------------------ channel()
\* oneshot channel() / OneShot::split: a fresh slot, one Sender, one Receiver
OneShotNew(var, tok) ==
    /\ variant = var
    /\ omsg = 0
    /\ oready = FALSE
    /\ oalloc = "live"
    /\ nfree = 0
    /\ ostrong = IF var = "arc" THEN 2 ELSE 0
    /\ slotdrop = "-"
    /\ spc = "idle"
    /\ sarg = 0
    /\ rpc = "idle"
    /\ rret = 0
    /\ token = tok
    /\ uninitRead = FALSE
    /\ uaf = FALSE

\* mpsc channel()
Init ==
    /\ OneShotNew("arc", FALSE)
    /\ queue = <<>>
    /\ messages = 0
    /\ strong = 2
    /\ hst = [h \in Handles |-> IF h = 1 THEN "idle" ELSE "none"]
    /\ npushed = 0
    /\ cpc = "idle"
    /\ cop = "-"
    /\ m = 0
    /\ cres = NoRes
    /\ received = <<>>
    /\ seenM = 0
    /\ quiet = TRUE

consumerVars == <<cpc, cop, m, cres, received, seenM>>

\* ------------------------------------------------------------ Sender
\* send(), line 40: queue.push(data, guard)
SendPush(h) ==
    /\ hst[h] = "idle"
    /\ npushed < MaxSends
    /\ queue' = QueuePush(queue, npushed + 1)
    /\ npushed' = npushed + 1
    /\ hst' = [hst EXCEPT ![h] = "pushed"]
    /\ quiet' = FALSE
    /\ UNCHANGED <<ovars, messages, strong, consumerVars>>

\* send(), line 41: messages.fetch_add(1, Release)
SendFetchAdd(h) ==
    /\ hst[h] = "pushed"
    /\ messages' = messages + 1
    /\ hst' = [hst EXCEPT ![h] = "added"]
    /\ quiet' = FALSE
    /\ UNCHANGED <<ovars, queue, strong, npushed, consumerVars>>

\* wake_one: FUTEX_WAKE of at most one thread blocked on the counter; nothing is
\* remembered when no thread is blocked.
WakeOne(pc) == IF pc = "recv_blocked" THEN "recv_load" ELSE pc

\* send(), line 42: wake_one(&messages)
SendWake(h) ==
    /\ hst[h] = "added"
    /\ cpc' = WakeOne(cpc)
    /\ hst' = [hst EXCEPT ![h] = "idle"]
    /\ quiet' = FALSE
    /\ UNCHANGED <<ovars, queue, messages, strong, npushed, cop, m, cres, received, seenM>>

\* Clone for Sender: Arc::clone raises the strong count, a new handle exists.
SenderClone(h, g) ==
    /\ hst[h] = "idle"
    /\ hst[g] = "none"
    /\ strong' = strong + 1
    /\ hst' = [hst EXCEPT ![g] = "idle"]
    /\ quiet' = FALSE
    /\ UNCHANGED <<ovars, queue, messages, npushed, consumerVars>>

\* Dropping a Sender drops its Arc: the strong count falls by one. Nobody is woken.
SenderDrop(h) ==
    /\ hst[h] = "idle"
    /\ strong' = strong - 1
    /\ hst' = [hst EXCEPT ![h] = "dropped"]
    /\ quiet' = FALSE
    /\ UNCHANGED <<ovars, queue, messages, npushed, consumerVars>>

\* ------------------------------------------------------------ Receiver
\* The consumer calls operation op, which starts at position pc.
Call(op, pc) ==
    /\ cpc = "idle"
    /\ cop' = op
    /\ cpc' = pc
    /\ seenM' = messages
    /\ quiet' = ~SendInFlight
    /\ UNCHANGED <<ovars, queue, messages, strong, hst, npushed, m, cres, received>>

\* The operation in progress returns r; an iterator's next() is recv().ok().
Return(r) ==
    /\ cpc' = "idle"
    /\ cres' = IF cop = "next"
               THEN (IF r.kind = "Ok" THEN Some(r.val) ELSE None)
               ELSE r
    /\ received' = IF r.kind \in {"Ok", "Some"} THEN Append(received, r.val)
                   ELSE received

RecvCall == Call("recv", "recv_chk_messages")

\* recv() without its disconnect check.
RecvCheckMessagesSkipped ==
    /\ cpc = "recv_chk_messages"
    /\ cpc' = "recv_load"
    /\ UNCHANGED <<ovars, queue, messages, strong, hst, npushed, cop, m, cres, received,
                   seenM, quiet>>

\* recv(), line 82, left operand: messages_remaining() < 1
RecvCheckMessages ==
    /\ cpc = "recv_chk_messages"
    /\ cpc' = IF MessagesRemaining < 1 THEN "recv_chk_senders" ELSE "recv_load"
    /\ UNCHANGED <<ovars, queue, messages, strong, hst, npushed, cop, m, cres, received,
                   seenM, quiet>>

\* recv(), line 82, right operand: senders_remaining() < 1, then line 83
RecvCheckSenders ==
    /\ cpc = "recv_chk_senders"
    /\ IF SendersRemaining < 1
       THEN Return(Err)
       ELSE cpc' = "recv_load" /\ UNCHANGED <<cres, received>>
    /\ UNCHANGED <<ovars, queue, messages, strong, hst, npushed, cop, m, seenM, quiet>>

\* recv() that takes a counter of 0 for a pending message.
RecvLoadOffByOne ==
    /\ cpc = "recv_load"
    /\ m' = messages
    /\ cpc' = IF messages >= 0 THEN "recv_cas" ELSE "recv_wait"
    /\ UNCHANGED <<ovars, queue, messages, strong, hst, npushed, cop, cres, received,
                   seenM, quiet>>

\* recv(), lines 86-87: load the counter and branch on it
RecvLoad ==
    /\ cpc = "recv_load"
    /\ m' = messages
    /\ cpc' = IF messages > 0 THEN "recv_cas" ELSE "recv_wait"
    /\ UNCHANGED <<ovars, queue, messages, strong, hst, npushed, cop, cres, received,
                   seenM, quiet>>

\* A compare_exchange that stores the value it loaded.
CasNewSame(x) == x

\* recv(), line 91: the new value of the compare_exchange
CasNew(x) == x - 1

\* recv(), lines 89-99: compare_exchange(messages, messages - 1)
RecvCas ==
    /\ cpc = "recv_cas"
    /\ IF messages = m
       THEN messages' = CasNew(m) /\ cpc' = "recv_pop" /\ m' = m
       ELSE m' = messages /\ cpc' = "recv_cas" /\ messages' = messages
    /\ UNCHANGED <<ovars, queue, strong, hst, npushed, cop, cres, received, seenM, quiet>>

\* A wait() that blocks without comparing the counter with the expected value.
RecvWaitNoCompare ==
    /\ cpc = "recv_wait"
    /\ cpc' = "recv_blocked"
    /\ UNCHANGED <<ovars, queue, messages, strong, hst, npushed, cop, m, cres, received,
                   seenM, quiet>>

\* recv(), line 102: wait(&messages, messages). FUTEX_WAIT compares the counter
\* with the expected value and blocks only if they are equal.
RecvWait ==
    /\ cpc = "recv_wait"
    /\ cpc' = IF messages = m THEN "recv_blocked" ELSE "recv_load"
    /\ UNCHANGED <<ovars, queue, messages, strong, hst, npushed, cop, m, cres, received,
                   seenM, quiet>>

\* FUTEX_WAIT may return with no wake and no change of the counter.
WaitSpurious ==
    /\ cpc = "recv_blocked"
    /\ cpc' = "recv_load"
    /\ UNCHANGED <<ovars, queue, messages, strong, hst, npushed, cop, m, cres, received,
                   seenM, quiet>>

\* recv(), line 106: queue.try_pop(guard).ok_or_else(|| RecvError)
RecvPop ==
    /\ cpc = "recv_pop"
    /\ LET p == QueueTryPop(queue) IN
        /\ queue' = p.rest
        /\ Return(IF p.some THEN Ok(p.val) ELSE Err)
    /\ UNCHANGED <<ovars, messages, strong, hst, npushed, cop, m, seenM, quiet>>

TryRecvCall == Call("try_recv", "try_chk_senders")

\* try_recv(), line 111, left operand: senders_remaining() < 1
TryRecvCheckSenders ==
    /\ cpc = "try_chk_senders"
    /\ cpc' = IF SendersRemaining < 1 THEN "try_chk_messages" ELSE "try_pop"
    /\ UNCHANGED <<ovars, queue, messages, strong, hst, npushed, cop, m, cres, received,
                   seenM, quiet>>

\* try_recv(), line 111, right operand: messages_remaining() < 1, then line 112
TryRecvCheckMessages ==
    /\ cpc = "try_chk_messages"
    /\ IF MessagesRemaining < 1
       THEN Return(None)
       ELSE cpc' = "try_pop" /\ UNCHANGED <<cres, received>>
    /\ UNCHANGED <<ovars, queue, messages, strong, hst, npushed, cop, m, seenM, quiet>>

\* try_recv() that hands out the head without removing it.
TryRecvPeek ==
    /\ cpc = "try_pop"
    /\ LET p == QueueTryPop(queue) IN
        /\ queue' = queue
        /\ Return(IF p.some THEN Some(p.val) ELSE None)
    /\ UNCHANGED <<ovars, messages, strong, hst, npushed, cop, m, seenM, quiet>>

\* try_recv(), line 115: queue.try_pop(guard)
TryRecvPop ==
    /\ cpc = "try_pop"
    /\ LET p == QueueTryPop(queue) IN
        /\ queue' = p.rest
        /\ Return(IF p.some THEN Some(p.val) ELSE None)
    /\ UNCHANGED <<ovars, messages, strong, hst, npushed, cop, m, seenM, quiet>>

\* ready(): one load of the counter
ReadyCall ==
    /\ cpc = "idle"
    /\ cop' = "ready"
    /\ cres' = Bool(Ready)
    /\ seenM' = messages
    /\ quiet' = ~SendInFlight
    /\ UNCHANGED <<ovars, queue, messages, strong, hst, npushed, cpc, m, received>>

\* The consumer holds an epoch guard: recv() pins at line 81 and keeps the guard
\* to its return at line 106 or 83; try_recv() pins at line 114 and keeps it
\* over its try_pop.
GuardHeld ==
    cpc \in {"recv_chk_messages", "recv_chk_senders", "recv_load", "recv_cas",
             "recv_wait", "recv_blocked", "recv_pop", "try_pop"}

\* The iteration has ended: next() returned None.
IterEnded == cpc = "idle" /\ cop = "next" /\ cres.kind = "None"

\* IntoIter::next / Iter::next are called until one returns None.
NextCall == ~IterEnded /\ Call("next", "next_chk_senders")

\* next(), line 126 / 149, left operand: senders_remaining() < 1
NextCheckSenders ==
    /\ cpc = "next_chk_senders"
    /\ cpc' = IF SendersRemaining < 1 THEN "next_chk_messages" ELSE "recv_chk_messages"
    /\ UNCHANGED <<ovars, queue, messages, strong, hst, npushed, cop, m, cres, received,
                   seenM, quiet>>

\* next(), line 126 / 149, right operand: messages.load(Acquire) < 1, then
\* line 127 / 150, or line 129 / 152: self.rx.recv().ok()
NextCheckMessages ==
    /\ cpc = "next_chk_messages"
    /\ IF messages < 1
       THEN Return(None)
       ELSE cpc' = "recv_chk_messages" /\ UNCHANGED <<cres, received>>
    /\ UNCHANGED <<ovars, queue, messages, strong, hst, npushed, cop, m, seenM, quiet>>

\* ------------------------------------------------------------ specifications
Producer ==
    \/ \E h \in Handles : SendPush(h)
    \/ \E h \in Handles : SendFetchAdd(h)
    \/ \E h \in Handles : SendWake(h)
    \/ \E h \in Handles : SenderDrop(h)

Cloning == \E h, g \in Handles : SenderClone(h, g)

RecvSteps ==
    \/ RecvCheckMessages
    \/ RecvCheckSenders
    \/ RecvLoad
    \/ RecvCas
    \/ RecvWait
    \/ RecvPop

TryRecvSteps ==
    \/ TryRecvCall
    \/ TryRecvCheckSenders
    \/ TryRecvCheckMessages
    \/ TryRecvPop

NextSteps ==
    \/ NextCall
    \/ NextCheckSenders
    \/ NextCheckMessages

\* Any use of the channel: producers send, clone and drop; the consumer calls
\* recv(), try_recv(), ready() and next() in any order.
Next ==
    \/ Producer
    \/ Cloning
    \/ RecvCall
    \/ RecvSteps
    \/ WaitSpurious
    \/ TryRecvSteps
    \/ ReadyCall
    \/ NextSteps

Spec == Init /\ [][Next]_vars

\* The consumer uses recv() (and ready()) only.
NextRecv ==
    \/ Producer
    \/ Cloning
    \/ RecvCall
    \/ RecvSteps
    \/ WaitSpurious
    \/ ReadyCall

SpecRecv == Init /\ [][NextRecv]_vars

\* A thread that is inside send() or recv() keeps running; nobody has to call
\* them, and a spurious return of wait() is never promised.
FairSpecRecv ==
    /\ SpecRecv
    /\ \A h \in Handles : WF_vars(SendFetchAdd(h) \/ SendWake(h))
    /\ WF_vars(RecvSteps)

\* tests::recv_iter: one producer sends and then drops the only Sender while
\* the consumer iterates the Receiver.
NextIter ==
    \/ Producer
    \/ NextSteps
    \/ RecvSteps
    \/ WaitSpurious

\* Both threads keep running; a spurious return of wait() is never promised.
FairSpecIter ==
    /\ Init
    /\ [][NextIter]_vars
    /\ WF_vars(Producer)
    /\ WF_vars(NextSteps \/ RecvSteps)


\* ------------------------------------------------------------ oneshot
OVals == 1..MaxVal
Variants == {"arc", "ptr"}

\* Drop for OneShot: the value's destructor runs only if `ready` is set.
SlotDrop == IF oready THEN "value" ELSE "empty"

\* A release in which the exclusive-pointer Sender frees the slot as well.
ReleaseBoth(isReceiver) ==
    IF variant = "arc"
    THEN /\ ostrong' = ostrong - 1
         /\ IF ostrong = 1
            THEN oalloc' = "freed" /\ nfree' = nfree + 1 /\ slotdrop' = SlotDrop
            ELSE UNCHANGED <<oalloc, nfree, slotdrop>>
    ELSE /\ ostrong' = ostrong
         /\ oalloc' = "freed"
         /\ nfree' = nfree + 1
         /\ slotdrop' = IF oalloc = "live" THEN SlotDrop ELSE slotdrop

\* An endpoint releases its reference to the slot. arc: the Arc's count falls
\* and the last reference frees the slot; ptr: only the Receiver's drop frees it
\* (Drop for Receiver, Box::from_raw).
Release(isReceiver) ==
    IF variant = "arc"
    THEN /\ ostrong' = ostrong - 1
         /\ IF ostrong = 1
            THEN oalloc' = "freed" /\ nfree' = nfree + 1 /\ slotdrop' = SlotDrop
            ELSE UNCHANGED <<oalloc, nfree, slotdrop>>
    ELSE /\ ostrong' = ostrong
         /\ IF isReceiver
            THEN /\ oalloc' = "freed"
                 /\ nfree' = nfree + 1
                 /\ slotdrop' = IF oalloc = "live" THEN SlotDrop ELSE slotdrop
            ELSE UNCHANGED <<oalloc, nfree, slotdrop>>

\* An access to the slot through the endpoint's pointer.
Touch == uaf' = (uaf \/ oalloc = "freed")

\* send(), (*channel.message.get()).write(message)
OsSendWrite(v) ==
    /\ spc = "idle"
    /\ sarg' = v
    /\ omsg' = v
    /\ spc' = "written"
    /\ Touch
    /\ UNCHANGED <<mvars, variant, oready, oalloc, nfree, ostrong, slotdrop, rpc, rret,
                   token, uninitRead>>

\* send(), ready.store(true, Release)
OsSendStore ==
    /\ spc = "written"
    /\ oready' = TRUE
    /\ spc' = "stored"
    /\ Touch
    /\ UNCHANGED <<mvars, variant, omsg, oalloc, nfree, ostrong, slotdrop, sarg, rpc, rret,
                   token, uninitRead>>

\* send() whose unpark is lost unless the receiver is already parked.
OsSendUnparkNoToken ==
    /\ spc = "stored"
    /\ rpc' = IF rpc = "parked" THEN "swap" ELSE rpc
    /\ spc' = "done"
    /\ Release(FALSE)
    /\ UNCHANGED <<mvars, variant, omsg, oready, sarg, rret, token, uninitRead, uaf>>

\* send() that looks at the slot once more after the flag store.
OsSendUnparkTouching ==
    /\ spc = "stored"
    /\ IF rpc = "parked"
       THEN rpc' = "swap" /\ token' = token
       ELSE rpc' = rpc /\ token' = TRUE
    /\ spc' = "done"
    /\ Touch
    /\ Release(FALSE)
    /\ UNCHANGED <<mvars, variant, omsg, oready, sarg, rret, uninitRead>>

\* send(), receiving_thread.unpark(), then `self` goes out of scope. unpark
\* wakes the thread if it is parked and leaves the token for its next park()
\* otherwise.
OsSendUnpark ==
    /\ spc = "stored"
    /\ IF rpc = "parked"
       THEN rpc' = "swap" /\ token' = token
       ELSE rpc' = rpc /\ token' = TRUE
    /\ spc' = "done"
    /\ Release(FALSE)
    /\ UNCHANGED <<mvars, variant, omsg, oready, sarg, rret, uninitRead, uaf>>

\* The Sender is dropped without send().
OsSenderDrop ==
    /\ spc = "idle"
    /\ spc' = "dropped"
    /\ Release(FALSE)
    /\ UNCHANGED <<mvars, variant, omsg, oready, sarg, rpc, rret, token,
                   uninitRead, uaf>>

OsRecvCall ==
    /\ rpc = "idle"
    /\ rpc' = "swap"
    /\ UNCHANGED <<mvars, variant, omsg, oready, oalloc, nfree, ostrong, slotdrop, spc,
                   sarg, rret, token, uninitRead, uaf>>

\* recv() whose loop condition lost its negation.
OsRecvSwapInverted ==
    /\ rpc = "swap"
    /\ oready' = FALSE
    /\ rpc' = IF oready THEN "park" ELSE "read"
    /\ Touch
    /\ UNCHANGED <<mvars, variant, omsg, oalloc, nfree, ostrong, slotdrop, spc, sarg, rret,
                   token, uninitRead>>

\* recv(), the loop condition: ready.swap(false, Acquire)
OsRecvSwap ==
    /\ rpc = "swap"
    /\ oready' = FALSE
    /\ rpc' = IF oready THEN "read" ELSE "park"
    /\ Touch
    /\ UNCHANGED <<mvars, variant, omsg, oalloc, nfree, ostrong, slotdrop, spc, sarg, rret,
                   token, uninitRead>>

\* recv(), thread::park(): returns at once if the token is set, consuming it
OsRecvPark ==
    /\ rpc = "park"
    /\ IF token
       THEN rpc' = "swap" /\ token' = FALSE
       ELSE rpc' = "parked" /\ token' = token
    /\ UNCHANGED <<mvars, variant, omsg, oready, oalloc, nfree, ostrong, slotdrop, spc,
                   sarg, rret, uninitRead, uaf>>

\* thread::park() may return with no unpark.
OsParkSpurious ==
    /\ rpc = "parked"
    /\ rpc' = "swap"
    /\ UNCHANGED <<mvars, variant, omsg, oready, oalloc, nfree, ostrong, slotdrop, spc,
                   sarg, rret, token, uninitRead, uaf>>

\* recv(), (*channel.message.get()).assume_init_read(). Reading storage that
\* was never written is undefined: any value may come out.
OsRecvRead ==
    /\ rpc = "read"
    /\ IF omsg = 0
       THEN rret' \in OVals /\ uninitRead' = TRUE
       ELSE rret' = omsg /\ uninitRead' = uninitRead
    /\ rpc' = "ret"
    /\ Touch
    /\ UNCHANGED <<mvars, variant, omsg, oready, oalloc, nfree, ostrong, slotdrop, spc,
                   sarg, token>>

\* The Receiver goes out of scope: at the end of recv(), or without recv().
OsReceiverDrop ==
    /\ rpc \in {"idle", "ret"}
    /\ rpc' = IF rpc = "ret" THEN "done" ELSE "dropped"
    /\ Release(TRUE)
    /\ UNCHANGED <<mvars, variant, omsg, oready, spc, sarg, rret, token,
                   uninitRead, uaf>>

\* A oneshot channel of either kind, made on a thread whose park token may
\* already be set; the mpsc channel is left unused.
InitOneShot ==
    /\ \E var \in Variants, tok \in BOOLEAN : OneShotNew(var, tok)
    /\ queue = <<>>
    /\ messages = 0
    /\ strong = 2
    /\ hst = [h \in Handles |-> IF h = 1 THEN "idle" ELSE "none"]
    /\ npushed = 0
    /\ cpc = "idle"
    /\ cop = "-"
    /\ m = 0
    /\ cres = NoRes
    /\ received = <<>>
    /\ seenM = 0
    /\ quiet = TRUE

NextOneShot ==
    \/ \E v \in OVals : OsSendWrite(v)
    \/ OsSendStore
    \/ OsSendUnpark
    \/ OsSenderDrop
    \/ OsRecvCall
    \/ OsRecvSwap
    \/ OsRecvPark
    \/ OsParkSpurious
    \/ OsRecvRead
    \/ OsReceiverDrop

SpecOneShot == InitOneShot /\ [][NextOneShot]_vars

\* A thread that is inside send() or recv() keeps running; nobody has to call
\* them, and a spurious return of park() is never promised.
FairSpecOneShot ==
    /\ SpecOneShot
    /\ WF_vars(OsSendStore \/ OsSendUnpark)
    /\ WF_vars(OsRecvSwap \/ OsRecvPark \/ OsRecvRead)

\* ------------------------------------------------------------ claims
Pushed == [i \in 1..npushed |-> i]
RecvReturned == cpc = "idle" /\ cop = "recv"
Quiescent == cpc = "idle" /\ ~SendInFlight

\* C1: with a consumer that uses recv() only, the values recv() has returned,
\* followed by the values still queued, are exactly the values pushed, in push
\* order (FIFO, nothing lost, nothing duplicated); a recv() called with the
\* counter above 0 returns a value, and between calls the counter is the number
\* of values still to be received.
C1_Fifo ==
    /\ received \o queue = Pushed
    /\ (RecvReturned /\ seenM > 0) => cres.kind = "Ok"
    /\ Quiescent => messages = Len(queue)

C1_Witness ==
    /\ Len(received) = MaxSends
    /\ MaxSends > 1
    /\ \A h \in Handles : hst[h] # "none"

\* C2: the consumer's iteration eventually ends when the producer sends and
\* then drops the only Sender.
C2_IterationTerminates == <>IterEnded

\* C3: when the iteration has ended, every pushed value has been yielded and
\* none is left in the queue.
C3_IterationYieldsAll == IterEnded => (Len(received) = npushed /\ queue = <<>>)

\* C4: a recv() called with the counter at 0 and with no producer operation in
\* progress or started since returns only as Disconnected and only when no
\* Sender is alive; with no Sender alive it never reaches wait(); with a Sender
\* alive it does not return.
C4_DisconnectOnEmpty ==
    (cop = "recv" /\ quiet /\ seenM = 0) =>
        /\ cpc = "idle" => (cres = Err /\ Cardinality(LiveSenders) = 0)
        /\ Cardinality(LiveSenders) = 0 =>
               cpc \in {"recv_chk_messages", "recv_chk_senders", "idle"}
        /\ Cardinality(LiveSenders) >= 1 => cpc # "idle"

C4_Witness ==
    /\ RecvReturned /\ quiet /\ seenM = 0
    /\ cres = Err
    /\ Len(received) > 0

\* C5: when recv() has returned RecvError, no Sender is alive and no pushed
\* value is left in the queue.
C5_DisconnectedMeansDrained ==
    (RecvReturned /\ cres = Err) => (LiveSenders = {} /\ queue = <<>>)

\* C6: whenever no call is in progress the counter equals the number of values
\* in the queue, and it is never negative.
C6_CounterEqualsOccupancy ==
    /\ Quiescent => messages = Len(queue)
    /\ messages >= 0

\* C7: ready() is true exactly when the counter is above 0; with a consumer that
\* uses recv() only and no call in progress, exactly when more sends than
\* successful recvs have completed, and that is what a call of ready() returns.
C7_ReadyReflectsPending ==
    /\ Ready <=> messages > 0
    /\ Quiescent => (Ready <=> npushed > Len(received))
    /\ (cpc = "idle" /\ cop = "ready" /\ quiet) =>
           cres = Bool(npushed > Len(received))

C7_Witness ==
    /\ cpc = "idle" /\ cop = "ready" /\ quiet
    /\ cres = Bool(FALSE)
    /\ npushed > 0 /\ Len(received) = npushed

\* C8: senders_remaining() is the number of live Sender handles, never negative,
\* 0 exactly when every Sender created has been dropped; a clone raises it by
\* one and a drop lowers it by one.
C8_SenderLiveness ==
    /\ [](/\ SendersRemaining = Cardinality(LiveSenders)
          /\ SendersRemaining >= 0
          /\ SendersRemaining = 0 <=> \A h \in Handles : hst[h] \in {"none", "dropped"})
    /\ [][/\ Cloning => SendersRemaining' = SendersRemaining + 1
          /\ (\E h \in Handles : SenderDrop(h)) =>
                 SendersRemaining' = SendersRemaining - 1]_vars

C8_Witness ==
    /\ SendersRemaining = 0
    /\ \A h \in Handles : hst[h] = "dropped"

\* C9: try_recv() is never blocked: it is never in wait() and always has a step
\* to take; when it returns, it returns None if the queue is empty at that time
\* and otherwise the head of the queue, which it removes.
C9_TryRecvNonBlocking ==
    /\ [](cop = "try_recv" =>
            /\ cpc \in {"idle", "try_chk_senders", "try_chk_messages", "try_pop"}
            /\ cpc # "idle" => ENABLED TryRecvSteps)
    /\ [][(cop = "try_recv" /\ cpc # "idle" /\ cpc' = "idle") =>
            IF queue = <<>>
            THEN cres' = None /\ queue' = queue
            ELSE cres' = Some(Head(queue)) /\ queue' = Tail(queue)]_vars

C9_Witness ==
    /\ cpc = "idle" /\ cop = "try_recv"
    /\ cres = None
    /\ LiveSenders = {}
    /\ Len(received) > 0

\* C10: in both oneshot variants recv() leaves its loop only after send() has
\* written the value and set the flag, it never reads uninitialized storage,
\* it returns exactly the value passed to send(), and it never returns when the
\* Sender was dropped without sending.
C10_RecvReturnsSent ==
    /\ ~uninitRead
    /\ rpc \in {"read", "ret", "done"} =>
           /\ spc \in {"stored", "done"}
           /\ sarg \in OVals
           /\ omsg = sarg
    /\ rpc \in {"ret", "done"} => rret = sarg
    /\ spc = "dropped" => rpc \in {"idle", "swap", "park", "parked", "dropped"}

C10_Witness ==
    /\ variant = "ptr"
    /\ rpc = "done"
    /\ rret = MaxVal
    /\ spc = "stored"

\* C11: once send(v) has begun while the receiving thread is inside recv()
\* (before its swap, between the swap and park(), or parked), recv() eventually
\* returns v.
C11_NoMissedWakeup ==
    (rpc \in {"swap", "park", "parked"} /\ spc \in {"written", "stored", "done"})
        ~> (rpc \in {"ret", "done"} /\ rret = sarg)

C11_Witness ==
    /\ rpc = "ret"
    /\ rret = sarg
    /\ spc = "done"
    /\ token

\* C12: the slot's destructor runs the value's destructor only on a value that
\* was written and not moved out by recv(), and a value whose send() returned
\* and that recv() never took is destroyed when the slot is freed.
C12_ExactlyOnceOwnership ==
    /\ slotdrop = "value" => (omsg # 0 /\ rpc \notin {"ret", "done"})
    /\ (oalloc = "freed" /\ spc = "done" /\ rpc \notin {"ret", "done"}) =>
           slotdrop = "value"

\* C13: in the exclusive-pointer variant the Sender is never still usable, or
\* inside send() before its flag store, once the slot has been deallocated, and
\* the slot is never accessed after its deallocation.
C13_SenderNotAfterReceiver ==
    variant = "ptr" =>
        /\ ~uaf
        /\ oalloc = "freed" => spc \notin {"idle", "written"}

\* C14: a recv() that is blocked in wait() with the counter at 0 and no live
\* Sender eventually returns RecvError.
C14_DisconnectBeforeEveryBlock ==
    (cop = "recv" /\ cpc = "recv_blocked" /\ messages = 0 /\ LiveSenders = {})
        ~> (cpc = "idle" /\ cres = Err)

\* C15: with a consumer that uses recv() only, once the counter is above 0 while
\* recv() is between its load of 0 and wait(), or blocked in wait(), recv()
\* eventually returns a value.
C15_NoMissedWakeup ==
    (cop = "recv" /\ cpc \in {"recv_wait", "recv_blocked"} /\ messages > 0)
        ~> (cpc = "idle" /\ cres.kind = "Ok")

C15_Witness ==
    /\ cop = "recv"
    /\ cpc = "recv_blocked"
    /\ messages > 0

\* C16: the consumer is never blocked in wait() while it holds a pinned guard.
C16_GuardScoped == ~(cpc = "recv_blocked" /\ GuardHeld)

\* C17: with a consumer that uses recv() only, the counter is at most the number
\* of values in the queue, and after recv()'s compare-and-swap has succeeded the
\* queue holds a value for its try_pop.
C17_PopFindsElement ==
    /\ messages <= Len(queue)
    /\ cpc = "recv_pop" => (queue # <<>> /\ messages < Len(queue))

C17_Witness ==
    /\ cpc = "recv_pop"
    /\ messages = 0
    /\ Len(queue) = 1
    /\ Len(received) > 0

\* C18: in the exclusive-pointer variant the slot is deallocated at most once,
\* it is deallocated exactly when the Receiver has been dropped (by the end of
\* recv() or unused), and no step of the Sender deallocates it.
C18_FreedOnceByReceiver ==
    /\ [](variant = "ptr" =>
            /\ nfree <= 1
            /\ nfree = 1 <=> rpc \in {"done", "dropped"}
            /\ oalloc = "freed" <=> nfree = 1)
    /\ [][(variant = "ptr" /\ spc' # spc) => nfree' = nfree]_vars

C18_Witness ==
    /\ variant = "ptr"
    /\ nfree = 1
    /\ rpc = "done"
    /\ spc = "done"

\* C19: in the exclusive-pointer variant, as long as the Receiver is dropped
\* only by completing recv(), the slot is never accessed after its deallocation:
\* when recv() has returned and freed it, send() is past its flag store.
C19_HandoffNoUseAfterFree ==
    (variant = "ptr" /\ rpc # "dropped") =>
        /\ ~uaf
        /\ oalloc = "freed" => spc \in {"stored", "done"}

C19_Witness ==
    /\ variant = "ptr"
    /\ rpc = "done"
    /\ oalloc = "freed"
    /\ spc = "stored"
    /\ ~uaf
    /\ ~token

====
